---------------------------- MODULE Spec2Model ----------------------------
(***************************************************************************)
(* Model of go/tools/builders/link.go: the builder action that drives      *)
(* "go tool link".                                                         *)
(*                                                                         *)
(* A Go string is a sequence of symbols.  The symbols are the single       *)
(* bytes the inputs are built from ("a", ".", "=", " ", "/", "\n", "\r")   *)
(* and the string literals of the program ("-X", "main", "c-archive", ...),*)
(* each literal being one symbol.  No input spells a literal.              *)
(*                                                                         *)
(* link is modelled as a sequence of steps; pc is the position in the      *)
(* function body.  The flag values are the state after flags.Parse.        *)
(***************************************************************************)
EXTENDS Integers, Sequences, FiniteSets, TLC

VARIABLES
    pc,            \* position in link
    err,           \* the error link returned (Nil while running or on success)
    xstamps,       \* -Xstamp values, in declaration order
    xdefs,         \* -X values, in declaration order
    stamps,        \* -stamp values: names of the stamp files
    disk,          \* contents of the stamp files, by name
    packagePath,   \* -p
    buildmode,     \* -buildmode
    outFile,       \* -o
    main,          \* -main
    toolArgs,      \* the pass-through arguments
    GOOS,          \* runtime.GOOS
    stampMap,      \* the merged stamp table
    si,            \* index of the stamp file being loaded
    scanbuf,       \* bytes the scanner has not consumed yet
    importcfgName, \* path of the descriptor, <<>> before it is built
    deferred,      \* whether defer os.Remove(importcfgName) is registered
    fs,            \* temporary files that exist on disk
    goargs,        \* the argument list under construction
    xi,            \* index in the loop over xstamps or xdefs
    parsed,        \* the locals of the last loop iteration: xdef and what
                   \* parseXdef returned for it (empty before the first one)
    invocations,   \* argument lists the external tool was run with
    toolResult,    \* outcome of the external tool: "none", "ok", "failed"
    stripped,      \* paths stripArMetadata was called on
    oFlag,         \* the -o value as given on the command line
    mainFlag,      \* the -main value as given on the command line
    calls          \* the calls of link to its collaborators, in order, each
                   \* with its argument and whether it succeeded

flagVars == <<xstamps, xdefs, stamps, disk, packagePath, buildmode, toolArgs, GOOS,
              oFlag, mainFlag>>
vars == <<pc, err, xstamps, xdefs, stamps, disk, packagePath, buildmode, outFile,
          main, toolArgs, GOOS, stampMap, si, scanbuf, importcfgName, deferred,
          fs, goargs, xi, parsed, invocations, toolResult, stripped, oFlag,
          mainFlag, calls>>

----------------------------------------------------------------------------
(* Bounds of the model *)

MaxXdefLen == 5
MaxStampBytes == 3
MaxStampFiles == 2
MaxReqs == 2

----------------------------------------------------------------------------
(* Strings *)

Range(s) == {s[i] : i \in 1..Len(s)}

Strings(alphabet, n) == UNION {[1..k -> alphabet] : k \in 0..n}

\* s[lo:hi] of Go (0-based, hi exclusive)
Slice(s, lo, hi) == SubSeq(s, lo + 1, hi)

\* strings.IndexByte: 0-based index of the first c in s, -1 if there is none
IndexByte(s, c) ==
    IF c \in Range(s)
    THEN (CHOOSE i \in 1..Len(s) : s[i] = c /\ \A j \in 1..(i - 1) : s[j] # c) - 1
    ELSE -1

\* strings.LastIndexByte: 0-based index of the last c in s, -1 if there is none
LastIndexByte(s, c) ==
    IF c \in Range(s)
    THEN (CHOOSE i \in 1..Len(s) : s[i] = c /\ \A j \in (i + 1)..Len(s) : s[j] # c) - 1
    ELSE -1

\* strings.SplitN(s, " ", 2)
SplitN2(s) ==
    LET i == IndexByte(s, " ")
    IN  IF i < 0 THEN <<s>> ELSE <<Slice(s, 0, i), Slice(s, i + 1, Len(s))>>

\* fmt.Sprintf("%s.%s=%s", pkg, name, value)
SprintfXdef(pkg, name, value) == pkg \o <<".">> \o name \o <<"=">> \o value

----------------------------------------------------------------------------
(* Errors *)

Nil == [set |-> FALSE, msg |-> <<>>]
Errorf(msg) == [set |-> TRUE, msg |-> msg]

ErrParams == Errorf(<<"params file: ">>)
ErrCheckFlags == Errorf(<<"GOROOT not set">>)
ErrImportcfg == Errorf(<<"importcfg: ">>)
ErrTool == Errorf(<<"error running subcommand: ">>)
ErrIO == <<"open: no such file or directory">>
ErrAr == <<"bad archive">>

----------------------------------------------------------------------------
(* Paths *)

Cwd == <<"/", "w">>

abs(path) ==
    IF path = <<>> THEN Cwd
    ELSE IF path[1] = "/" THEN path
    ELSE Cwd \o <<"/">> \o path

\* goenv.goTool("link"): the toolchain prefix
goTool(cmd) == <<<<"go">>, <<"tool">>, <<cmd>>>>

CArchive == <<"c-archive">>

\* filepath.Dir
Dir(path) ==
    LET i == LastIndexByte(path, "/")
    IN  IF i < 0 THEN <<".">>
        ELSE IF i = 0 THEN <<"/">>
        ELSE Slice(path, 0, i)

ImportcfgPath == <<"/", "importcfg">>

----------------------------------------------------------------------------
(* The stamp file scanner *)

MaxScanTokenSize == 65536

dropCR(data) ==
    IF Len(data) > 0 /\ data[Len(data)] = "\r"
    THEN Slice(data, 0, Len(data) - 1)
    ELSE data

\* One call of scanner.Scan() on the unread bytes: whether a line was
\* produced, the line (scanner.Text()) and the bytes left.  A line that does
\* not fit the scanner's buffer ends the scan (scanner.Err is not looked at).
Scan(data) ==
    LET i == IndexByte(data, "\n")
    IN  IF data = <<>> THEN [ok |-> FALSE, text |-> <<>>, rest |-> <<>>]
        ELSE IF i >= 0
        THEN IF i >= MaxScanTokenSize
             THEN [ok |-> FALSE, text |-> <<>>, rest |-> data]
             ELSE [ok |-> TRUE, text |-> dropCR(Slice(data, 0, i)),
                   rest |-> Slice(data, i + 1, Len(data))]
        ELSE IF Len(data) >= MaxScanTokenSize
             THEN [ok |-> FALSE, text |-> <<>>, rest |-> data]
             ELSE [ok |-> TRUE, text |-> dropCR(data), rest |-> <<>>]

\* A store that keeps the first value of a key
MapSetIfAbsent(m, k, v) == [x \in DOMAIN m \cup {k} |-> IF x \in DOMAIN m THEN m[x] ELSE v]

\* m[k] = v of a Go map
MapSet(m, k, v) == [x \in DOMAIN m \cup {k} |-> IF x = k THEN v ELSE m[x]]

\* The body of the scanner loop: the switch on len(line)
StoreLine(m, text) ==
    LET line == SplitN2(text)
    IN  IF Len(line) = 0 THEN m
        ELSE IF Len(line) = 1 THEN MapSet(m, line[1], <<>>)
        ELSE MapSet(m, line[1], line[2])

----------------------------------------------------------------------------
(* parseXdef *)

\* The split at the last '='
EqIndexLast(xdef) == LastIndexByte(xdef, "=")

\* The index of the '=' at which parseXdef splits
EqIndex(xdef) == IndexByte(xdef, "=")

\* parseXdef without the package rewrite
RewriteNever(pkg, own) == pkg

\* The package rewrite at the end of parseXdef
RewritePkg(pkg, own) == IF pkg = own THEN <<"main">> ELSE pkg

\* A parser that takes a request without '=' or '.' as a bare value
parseXdefLenient(xdef, own) ==
    LET eq == EqIndex(xdef)
        dot == LastIndexByte(Slice(xdef, 0, eq), ".")
    IN  IF eq < 0 \/ dot < 0
        THEN [pkg |-> <<>>, name |-> <<>>, value |-> xdef, err |-> Nil]
        ELSE [pkg |-> RewritePkg(Slice(xdef, 0, dot), own),
              name |-> Slice(xdef, dot + 1, eq),
              value |-> Slice(xdef, eq + 1, Len(xdef)),
              err |-> Nil]

parseXdef(xdef, own) ==
    LET eq == EqIndex(xdef)
        dot == LastIndexByte(Slice(xdef, 0, eq), ".")
    IN  IF eq < 0
        THEN [pkg |-> <<>>, name |-> <<>>, value |-> <<>>,
              err |-> Errorf(<<"-X or -Xstamp flag does not contain '=': ">> \o xdef)]
        ELSE IF dot < 0
        THEN [pkg |-> <<>>, name |-> <<>>, value |-> <<>>,
              err |-> Errorf(<<"-X or -Xstamp flag does not contain '.': ">> \o xdef)]
        ELSE [pkg |-> RewritePkg(Slice(xdef, 0, dot), own),
              name |-> Slice(xdef, dot + 1, eq),
              value |-> Slice(xdef, eq + 1, Len(xdef)),
              err |-> Nil]

----------------------------------------------------------------------------
(* Inputs *)

XdefAlphabet == {"a", ".", "="}
FileAlphabet == {"a", " ", "\n", "\r"}

StampName(i) == <<"stamp", ToString(i)>>

\* The stamp table of the fixed stamp file: a -> b, = -> ""
FixedStampFile == <<"a", " ", "b", "\n", "=">>

\* Requests: a.a=a, .a==, a.a=. and the malformed a=
ReqSamples ==
    { <<"a", ".", "a", "=", "a">>, <<".", "a", "=", "=">>,
      <<"a", ".", "a", "=", ".">>, <<"a", "=">> }

BuildModes == {<<>>, CArchive, <<"pie">>}
OutFiles == {<<"o">>, <<"/", "o">>}
MainFiles == {<<"m">>, <<"/", "m">>}
ToolArgSets == {<<>>, <<<<"-s">>>>, <<<<"-s">>, <<"-w">>>>, <<<<"-w">>, <<"-s">>>>}
Platforms == {"linux", "darwin", "windows"}

\* The ways of cutting the bytes s into n consecutive files
Cuts(s, n) ==
    {c \in [1..(n - 1) -> 0..Len(s)] : \A i \in 1..(n - 2) : c[i] <= c[i + 1]}

CutFiles(s, n, c) ==
    [i \in 1..n |->
        SubSeq(s, (IF i = 1 THEN 0 ELSE c[i - 1]) + 1, IF i = n THEN Len(s) ELSE c[i])]

BaseInput ==
    [xstamps |-> <<>>, xdefs |-> <<>>, files |-> <<FixedStampFile>>,
     packagePath |-> <<"a">>, buildmode |-> <<>>, outFile |-> <<"o">>,
     main |-> <<"m">>, toolArgs |-> <<>>, GOOS |-> "linux"]

\* One request of any shape, as -Xstamp or as -X, with and without -p
ParseInputs ==
    {[BaseInput EXCEPT !.xstamps = IF k = 1 THEN <<s>> ELSE <<>>,
                       !.xdefs = IF k = 2 THEN <<s>> ELSE <<>>,
                       !.packagePath = p] :
        s \in Strings(XdefAlphabet, MaxXdefLen), k \in 1..2, p \in {<<>>, <<"a">>}}

\* Stamp files of any content, looked up with the keys a and ""
StampInputs ==
    UNION {UNION {UNION {
        {[BaseInput EXCEPT !.files = CutFiles(s, n, c),
                           !.xstamps = << <<"a", ".", "a", "=", "a">>,
                                          <<"a", ".", "a", "=">> >>]} :
            c \in Cuts(s, n)} :
            s \in Strings(FileAlphabet, MaxStampBytes)} :
            n \in 0..MaxStampFiles}

\* Several requests of both kinds
OrderInputs ==
    {[BaseInput EXCEPT !.xstamps = xs, !.xdefs = xd] :
        xs \in Strings(ReqSamples, MaxReqs), xd \in Strings(ReqSamples, MaxReqs)}

\* Build modes, platforms, paths and pass-through arguments
ModeInputs ==
    {[BaseInput EXCEPT !.buildmode = b, !.outFile = o, !.main = m,
                       !.toolArgs = t, !.GOOS = g,
                       !.xdefs = << <<"a", ".", "a", "=", "a">> >>] :
        b \in BuildModes, o \in OutFiles, m \in MainFiles, t \in ToolArgSets,
        g \in Platforms}

Inputs == ParseInputs \cup StampInputs \cup OrderInputs \cup ModeInputs

----------------------------------------------------------------------------
(* link *)

Init ==
    \E in \in Inputs :
        /\ pc = "start"
        /\ err = Nil
        /\ xstamps = in.xstamps
        /\ xdefs = in.xdefs
        /\ stamps = [i \in 1..Len(in.files) |-> StampName(i)]
        /\ disk = [f \in {StampName(i) : i \in 1..Len(in.files)} |->
                      in.files[CHOOSE i \in 1..Len(in.files) : StampName(i) = f]]
        /\ packagePath = in.packagePath
        /\ buildmode = in.buildmode
        /\ outFile = in.outFile
        /\ main = in.main
        /\ toolArgs = in.toolArgs
        /\ GOOS = in.GOOS
        /\ stampMap = <<>>
        /\ si = 1
        /\ scanbuf = <<>>
        /\ importcfgName = <<>>
        /\ deferred = FALSE
        /\ fs = {}
        /\ goargs = <<>>
        /\ xi = 1
        /\ parsed = <<>>
        /\ invocations = <<>>
        /\ toolResult = "none"
        /\ stripped = <<>>
        /\ oFlag = in.outFile
        /\ mainFlag = in.main
        /\ calls = <<>>

\* link without the deferred removal
KeepFiles(files, registered, name) == files

\* The deferred os.Remove(importcfgName), run when link returns
RunDeferred(files, registered, name) == IF registered THEN files \ {name} ELSE files

\* A call of op with argument arg, and whether it returned without error
Call(op, arg, ok) == [op |-> op, arg |-> arg, ok |-> ok]

\* return e
Return(e) ==
    /\ pc' = "done"
    /\ err' = e
    /\ fs' = RunDeferred(fs, deferred, importcfgName)

\* readParamsFiles, flags.Parse (flag.ExitOnError) and goenv.checkFlags
ParseArgs ==
    /\ pc = "start"
    /\ \/ /\ Return(ErrParams)
          /\ calls' = <<Call("readParamsFiles", <<>>, FALSE)>>
       \/ /\ pc' = "exited"
          /\ calls' = <<Call("readParamsFiles", <<>>, TRUE),
                        Call("flags.Parse", <<>>, FALSE)>>
          /\ UNCHANGED <<err, fs>>
       \/ /\ Return(ErrCheckFlags)
          /\ calls' = <<Call("readParamsFiles", <<>>, TRUE),
                        Call("flags.Parse", <<>>, TRUE),
                        Call("checkFlags", <<>>, FALSE)>>
       \/ /\ pc' = "abs"
          /\ calls' = <<Call("readParamsFiles", <<>>, TRUE),
                        Call("flags.Parse", <<>>, TRUE),
                        Call("checkFlags", <<>>, TRUE)>>
          /\ UNCHANGED <<err, fs>>
    /\ UNCHANGED <<parsed, flagVars, outFile, main, stampMap, si, scanbuf, importcfgName,
                   deferred, goargs, xi, invocations, toolResult, stripped>>

\* The output path made absolute on every platform
NormalizeOutAlways(goos, path) == abs(path)

\* The platform rule for the output path
NormalizeOut(goos, path) == IF goos # "darwin" THEN abs(path) ELSE path

NormalizePaths ==
    /\ pc = "abs"
    /\ outFile' = NormalizeOut(GOOS, outFile)
    /\ main' = abs(main)
    /\ pc' = "stamps"
    /\ UNCHANGED <<calls, parsed, err, flagVars, stampMap, si, scanbuf, importcfgName, deferred,
                   fs, goargs, xi, invocations, toolResult, stripped>>

\* A loop that passes over a stamp file it cannot read
StampErrorSkipped(name, ok) == Nil

\* What link returns after ioutil.ReadFile(name): Nil to go on
StampError(name, ok) ==
    IF ok THEN Nil
    ELSE Errorf(<<"Failed reading stamp file ">> \o name \o <<": ">> \o ErrIO)

\* ioutil.ReadFile(stampfile) and bufio.NewScanner
ReadStampFile ==
    /\ pc = "stamps"
    /\ si <= Len(stamps)
    /\ \E ok \in BOOLEAN :
          /\ calls' = Append(calls, Call("ReadFile", stamps[si], ok))
          /\ IF StampError(stamps[si], ok).set
             THEN /\ Return(StampError(stamps[si], ok))
                  /\ UNCHANGED scanbuf
             ELSE /\ scanbuf' = IF ok THEN disk[stamps[si]] ELSE <<>>
                  /\ pc' = "scan"
                  /\ UNCHANGED <<err, fs>>
    /\ UNCHANGED <<parsed, flagVars, outFile, main, stampMap, si, importcfgName, deferred,
                   goargs, xi, invocations, toolResult, stripped>>

\* One iteration of for scanner.Scan()
ScanLine ==
    /\ pc = "scan"
    /\ Scan(scanbuf).ok
    /\ stampMap' = StoreLine(stampMap, Scan(scanbuf).text)
    /\ scanbuf' = Scan(scanbuf).rest
    /\ UNCHANGED <<calls, parsed, pc, err, flagVars, outFile, main, si, importcfgName, deferred,
                   fs, goargs, xi, invocations, toolResult, stripped>>

\* scanner.Scan() returned false: on to the next stamp file
ScanEnd ==
    /\ pc = "scan"
    /\ ~Scan(scanbuf).ok
    /\ si' = si + 1
    /\ scanbuf' = <<>>
    /\ pc' = "stamps"
    /\ UNCHANGED <<calls, parsed, err, flagVars, outFile, main, stampMap, importcfgName, deferred,
                   fs, goargs, xi, invocations, toolResult, stripped>>

\* buildImportcfgFileForLink and defer os.Remove(importcfgName)
BuildImportcfg ==
    /\ pc = "stamps"
    /\ si > Len(stamps)
    /\ \/ /\ Return(ErrImportcfg)
          /\ calls' = Append(calls, Call("buildImportcfgFileForLink", Dir(outFile), FALSE))
          /\ UNCHANGED <<importcfgName, deferred>>
       \/ /\ importcfgName' = ImportcfgPath
          /\ calls' = Append(calls, Call("buildImportcfgFileForLink", Dir(outFile), TRUE))
          /\ fs' = fs \cup {ImportcfgPath}
          /\ deferred' = TRUE
          /\ pc' = "goargs"
          /\ UNCHANGED err
    /\ UNCHANGED <<parsed, flagVars, outFile, main, stampMap, si, scanbuf, goargs, xi,
                   invocations, toolResult, stripped>>

\* goargs := goenv.goTool("link"); append "-importcfg", importcfgName
StartArgs ==
    /\ pc = "goargs"
    /\ goargs' = goTool("link") \o <<<<"-importcfg">>, importcfgName>>
    /\ xi' = 1
    /\ pc' = "xstamps"
    /\ UNCHANGED <<calls, parsed, err, flagVars, outFile, main, stampMap, si, scanbuf,
                   importcfgName, deferred, fs, invocations, toolResult, stripped>>

\* A loop that visits the list backwards
RangeItemReversed(list, i) == list[Len(list) + 1 - i]

\* The element a range loop visits in its i-th iteration
RangeItem(list, i) == list[i]

\* A lookup that does not test whether the key is present
StampArgsNoCheck(m, r) ==
    <<<<"-X">>, SprintfXdef(r.pkg, r.name, IF r.value \in DOMAIN m THEN m[r.value] ELSE <<>>)>>

\* What the -Xstamp loop appends for a parsed request
StampArgs(m, r) ==
    IF r.value \in DOMAIN m
    THEN <<<<"-X">>, SprintfXdef(r.pkg, r.name, m[r.value])>>
    ELSE <<>>

\* What the -X loop appends for a parsed request
XdefArgs(r) == <<<<"-X">>, SprintfXdef(r.pkg, r.name, r.value)>>

\* A loop that ignores the error of parseXdef
ParseNeverFailed(r) == FALSE

\* if err != nil after parseXdef
ParseFailed(r) == r.err.set

\* The locals of a loop iteration
Locals(xdef, r) ==
    <<[xdef |-> xdef, pkg |-> r.pkg, name |-> r.name, value |-> r.value,
       err |-> r.err]>>

\* One iteration of for _, xdef := range xstamps
XstampStep ==
    /\ pc = "xstamps"
    /\ xi <= Len(xstamps)
    /\ LET r == parseXdef(RangeItem(xstamps, xi), packagePath)
       IN  /\ parsed' = Locals(RangeItem(xstamps, xi), r)
           /\ IF ParseFailed(r)
             THEN /\ Return(r.err)
                  /\ UNCHANGED <<goargs, xi>>
             ELSE /\ goargs' = goargs \o StampArgs(stampMap, r)
                  /\ xi' = xi + 1
                  /\ UNCHANGED <<pc, err, fs>>
    /\ UNCHANGED <<calls, flagVars, outFile, main, stampMap, si, scanbuf, importcfgName,
                   deferred, invocations, toolResult, stripped>>

\* The -Xstamp loop is over
XstampEnd ==
    /\ pc = "xstamps"
    /\ xi > Len(xstamps)
    /\ xi' = 1
    /\ parsed' = <<>>
    /\ pc' = "xdefs"
    /\ UNCHANGED <<calls, err, flagVars, outFile, main, stampMap, si, scanbuf,
                   importcfgName, deferred, fs, goargs, invocations, toolResult,
                   stripped>>

\* One iteration of for _, xdef := range xdefs
XdefStep ==
    /\ pc = "xdefs"
    /\ xi <= Len(xdefs)
    /\ LET r == parseXdef(RangeItem(xdefs, xi), packagePath)
       IN  /\ parsed' = Locals(RangeItem(xdefs, xi), r)
           /\ IF ParseFailed(r)
             THEN /\ Return(r.err)
                  /\ UNCHANGED <<goargs, xi>>
             ELSE /\ goargs' = goargs \o XdefArgs(r)
                  /\ xi' = xi + 1
                  /\ UNCHANGED <<pc, err, fs>>
    /\ UNCHANGED <<calls, flagVars, outFile, main, stampMap, si, scanbuf, importcfgName,
                   deferred, invocations, toolResult, stripped>>

\* -buildmode passed on unconditionally
ModeArgsAlways(mode) == <<<<"-buildmode">>, mode>>

\* The -buildmode arguments
ModeArgs(mode) == IF mode # <<>> THEN <<<<"-buildmode">>, mode>> ELSE <<>>

\* The arguments appended after the substitutions
TailArgs(mode, out, pass, mainFile) ==
    ModeArgs(mode) \o <<<<"-o">>, out>> \o pass \o <<mainFile>>

\* The -X loop is over: -buildmode, -o, the pass-through arguments, main
FinishArgs ==
    /\ pc = "xdefs"
    /\ xi > Len(xdefs)
    /\ goargs' = goargs \o TailArgs(buildmode, outFile, toolArgs, main)
    /\ parsed' = <<>>
    /\ pc' = "run"
    /\ UNCHANGED <<calls, err, flagVars, outFile, main, stampMap, si, scanbuf,
                   importcfgName, deferred, fs, xi, invocations, toolResult,
                   stripped>>

\* goenv.runCommand(goargs)
RunCommand ==
    /\ pc = "run"
    /\ invocations' = Append(invocations, goargs)
    /\ \/ /\ toolResult' = "failed"
          /\ calls' = Append(calls, Call("runCommand", <<>>, FALSE))
          /\ Return(ErrTool)
       \/ /\ toolResult' = "ok"
          /\ calls' = Append(calls, Call("runCommand", <<>>, TRUE))
          /\ pc' = "post"
          /\ UNCHANGED <<err, fs>>
    /\ UNCHANGED <<parsed, flagVars, outFile, main, stampMap, si, scanbuf, importcfgName,
                   deferred, goargs, xi, stripped>>

\* Post-processing for every declared build mode
NeedsStripAnyMode(mode) == mode # <<>>

\* Whether the output is post-processed
NeedsStrip(mode) == mode = CArchive

\* A link that does not look at the result of stripArMetadata
StripErrorDropped(ok) == Nil

\* What link returns after stripArMetadata(*outFile)
StripError(ok) ==
    IF ok THEN Nil
    ELSE Errorf(<<"error stripping archive metadata: ">> \o ErrAr)

\* stripArMetadata(*outFile) for c-archive, then return nil
PostProcess ==
    /\ pc = "post"
    /\ IF NeedsStrip(buildmode)
       THEN /\ stripped' = Append(stripped, outFile)
            /\ \E ok \in BOOLEAN :
                  /\ calls' = Append(calls, Call("stripArMetadata", outFile, ok))
                  /\ Return(StripError(ok))
       ELSE /\ Return(Nil)
            /\ UNCHANGED <<stripped, calls>>
    /\ UNCHANGED <<parsed, flagVars, outFile, main, stampMap, si, scanbuf, importcfgName,
                   deferred, goargs, xi, invocations, toolResult>>

Next ==
    \/ ParseArgs
    \/ NormalizePaths
    \/ ReadStampFile
    \/ ScanLine
    \/ ScanEnd
    \/ BuildImportcfg
    \/ StartArgs
    \/ XstampStep
    \/ XstampEnd
    \/ XdefStep
    \/ FinishArgs
    \/ RunCommand
    \/ PostProcess

Spec == Init /\ [][Next]_vars

Terminated == pc \in {"done", "exited"}

----------------------------------------------------------------------------
(* Vocabulary of the properties *)

\* The readings of x as p.n=v in which the '=' is the first '=' of x and the
\* '.' is the last '.' before it: pairs <<position of '.', position of '='>>
FirstSplits(x) ==
    {ij \in (1..Len(x)) \X (1..Len(x)) :
        /\ ij[1] < ij[2]
        /\ x[ij[1]] = "."
        /\ x[ij[2]] = "="
        /\ \A k \in 1..(ij[2] - 1) : x[k] # "="
        /\ \A k \in (ij[1] + 1)..(ij[2] - 1) : x[k] # "."}

\* The same with the '=' being the last '=' of x
LastSplits(x) ==
    {ij \in (1..Len(x)) \X (1..Len(x)) :
        /\ ij[1] < ij[2]
        /\ x[ij[1]] = "."
        /\ x[ij[2]] = "="
        /\ \A k \in (ij[2] + 1)..Len(x) : x[k] # "="
        /\ \A k \in (ij[1] + 1)..(ij[2] - 1) : x[k] # "."}

\* x has no '=', or no '.' before its last '='
Malformed(x) == LastSplits(x) = {}

Parts(x, ij) ==
    [pkg |-> SubSeq(x, 1, ij[1] - 1),
     name |-> SubSeq(x, ij[1] + 1, ij[2] - 1),
     value |-> SubSeq(x, ij[2] + 1, Len(x))]

\* The package part handed to the external tool
Entry(pkg) == IF pkg = packagePath THEN <<"main">> ELSE pkg

\* The request x as the code reads it, with the package part rewritten
Resolved(x) ==
    LET q == Parts(x, CHOOSE ij \in FirstSplits(x) : TRUE)
    IN  [q EXCEPT !.pkg = Entry(q.pkg)]

Joined(pkg, name, value) == pkg \o <<".">> \o name \o <<"=">> \o value

\* x occurs in msg
Contains(msg, x) ==
    \E i \in 0..(Len(msg) - Len(x)) : SubSeq(msg, i + 1, i + Len(x)) = x

\* Length of the argument list before the substitutions
PrefixLen == Len(goTool("link")) + 2

\* All stamp files have been loaded
StampsLoaded == si > Len(stamps)

RECURSIVE LinesOf(_)
\* The lines the scanner yields for the bytes of a file
LinesOf(data) ==
    LET s == Scan(data)
    IN  IF s.ok THEN <<s.text>> \o LinesOf(s.rest) ELSE <<>>

\* The lines of all stamp files: <<file index, line index, text>>
StampLines ==
    UNION {{<<f, l, LinesOf(disk[stamps[f]])[l]>> :
                l \in 1..Len(LinesOf(disk[stamps[f]]))} : f \in 1..Len(stamps)}

\* Number of bytes of a line before its first space
KeyLen(text) ==
    CHOOSE n \in 0..Len(text) :
        /\ \A k \in 1..n : text[k] # " "
        /\ n = Len(text) \/ text[n + 1] = " "

LineKey(text) == SubSeq(text, 1, KeyLen(text))
LineValue(text) == SubSeq(text, KeyLen(text) + 2, Len(text))

\* e comes no later than d in the order the files are declared and read
NoLater(e, d) == e[1] < d[1] \/ (e[1] = d[1] /\ e[2] <= d[2])

\* The table in which every key has the value of the last of the lines E that
\* defines it
LastWins(E) ==
    [k \in {LineKey(e[3]) : e \in E} |->
        LineValue((CHOOSE d \in E :
                      /\ LineKey(d[3]) = k
                      /\ \A e \in E : LineKey(e[3]) = k => NoLater(e, d))[3])]

\* t1 overwritten key by key with t2
Overwrite(t1, t2) ==
    [k \in DOMAIN t1 \cup DOMAIN t2 |-> IF k \in DOMAIN t2 THEN t2[k] ELSE t1[k]]

RECURSIVE MergedUpTo(_)
\* F1 loaded and overwritten with F2, ..., Fn
MergedUpTo(n) ==
    IF n = 0 THEN [k \in {} |-> <<>>]
    ELSE Overwrite(MergedUpTo(n - 1), LastWins({e \in StampLines : e[1] = n}))

RECURSIVE ResolvedStampArgs(_)
\* The arguments of the first n -Xstamp requests, in declaration order
ResolvedStampArgs(n) ==
    IF n = 0 THEN <<>>
    ELSE LET q == Resolved(xstamps[n])
         IN  ResolvedStampArgs(n - 1) \o
             (IF q.value \in DOMAIN stampMap
              THEN <<<<"-X">>, Joined(q.pkg, q.name, stampMap[q.value])>>
              ELSE <<>>)

RECURSIVE ResolvedXdefArgs(_)
\* The arguments of the first n -X requests, in declaration order
ResolvedXdefArgs(n) ==
    IF n = 0 THEN <<>>
    ELSE LET q == Resolved(xdefs[n])
         IN  ResolvedXdefArgs(n - 1) \o <<<<"-X">>, Joined(q.pkg, q.name, q.value)>>

----------------------------------------------------------------------------
(* Properties *)

\* C1: once the descriptor has been created, no terminal state of link still
\* has the descriptor file on disk, whichever way link ended.
DescriptorRemoved ==
    (Terminated /\ importcfgName # <<>>) => importcfgName \notin fs

\* link ended on a failing external tool after creating the descriptor
DescriptorRemovedWitness ==
    /\ pc = "done"
    /\ importcfgName # <<>>
    /\ toolResult = "failed"
    /\ err.set

\* C2: the argument list the external tool receives is exactly the toolchain
\* prefix, -importcfg and the descriptor, the resolved -Xstamp substitutions,
\* the resolved -X substitutions, -buildmode and the mode iff the mode is not
\* empty, -o and the output path, the pass-through arguments in input order,
\* and the main path last.
ArgumentList ==
    \A k \in 1..Len(invocations) :
        invocations[k] =
            goTool("link") \o <<<<"-importcfg">>, importcfgName>>
            \o ResolvedStampArgs(Len(xstamps))
            \o ResolvedXdefArgs(Len(xdefs))
            \o (IF buildmode # <<>> THEN <<<<"-buildmode">>, buildmode>> ELSE <<>>)
            \o <<<<"-o">>, outFile>>
            \o toolArgs
            \o <<main>>

\* the tool was run without a build mode and with two pass-through arguments
ArgumentListWitness ==
    /\ Len(invocations) = 1
    /\ buildmode = <<>>
    /\ Len(toolArgs) = 2
    /\ Len(xdefs) = 1

\* C3: a step of the -Xstamp loop over a request the parser accepts appends
\* nothing and raises no error when the stamp key is absent from the table,
\* and appends exactly the pair -X, pkg.sym=v when the key is present with
\* value v.
StampLookup ==
    [][(pc = "xstamps" /\ xi' = xi + 1) =>
          LET q == Resolved(xstamps[xi])
          IN  IF q.value \in DOMAIN stampMap
              THEN goargs' = goargs \o
                       <<<<"-X">>, Joined(q.pkg, q.name, stampMap[q.value])>>
              ELSE goargs' = goargs /\ ~err'.set /\ pc' = "xstamps"]_vars

\* a request whose key is absent from a non-empty table was passed over
StampLookupWitness ==
    /\ pc = "xstamps"
    /\ parsed # <<>>
    /\ ~parsed[1].err.set
    /\ parsed[1].value \notin DOMAIN stampMap
    /\ DOMAIN stampMap # {}
    /\ Len(goargs) = PrefixLen

\* C4 as stated: every input with a '.' before its last '=' is split at the
\* last '=' and, before it, at the last '.'.
SplitsAtLastEq ==
    \A k \in 1..Len(parsed) :
        \A ij \in LastSplits(parsed[k].xdef) :
            LET q == Parts(parsed[k].xdef, ij)
            IN  /\ ~parsed[k].err.set
                /\ parsed[k].pkg = Entry(q.pkg)
                /\ parsed[k].name = q.name
                /\ parsed[k].value = q.value

\* C4 (amended): parseXdef splits at the first '=' and, before it, at the last
\* '.'; an input is accepted exactly when it has a '.' before its first '='.
SplitsAtFirstEq ==
    \A k \in 1..Len(parsed) :
        /\ parsed[k].err.set <=> FirstSplits(parsed[k].xdef) = {}
        /\ \A ij \in FirstSplits(parsed[k].xdef) :
              LET q == Parts(parsed[k].xdef, ij)
              IN  /\ parsed[k].pkg = Entry(q.pkg)
                  /\ parsed[k].name = q.name
                  /\ parsed[k].value = q.value

\* an accepted input with a second '=' in its value
SplitsAtFirstEqWitness ==
    /\ parsed # <<>>
    /\ ~parsed[1].err.set
    /\ "=" \in Range(parsed[1].value)

\* C5: an input with no '=' or with no '.' before its last '=' is rejected
\* with an error that contains the input; link then returns that error, and
\* the external tool is never run when any request is malformed in this way.
ParseErrorReported ==
    /\ \A k \in 1..Len(parsed) :
          Malformed(parsed[k].xdef) =>
              /\ parsed[k].err.set
              /\ Contains(parsed[k].err.msg, parsed[k].xdef)
              /\ pc = "done"
              /\ err = parsed[k].err
    /\ (\/ \E i \in 1..Len(xstamps) : Malformed(xstamps[i])
        \/ \E i \in 1..Len(xdefs) : Malformed(xdefs[i])) =>
          /\ invocations = <<>>
          /\ (pc = "done" /\ importcfgName # <<>>) =>
                 /\ parsed # <<>>
                 /\ err.set
                 /\ err = parsed[1].err
                 /\ Contains(err.msg, parsed[1].xdef)

\* link ended on an -X request that has an '=' but no '.' before it
ParseErrorReportedWitness ==
    /\ pc = "done"
    /\ parsed # <<>>
    /\ Malformed(parsed[1].xdef)
    /\ "=" \in Range(parsed[1].xdef)
    /\ xstamps = <<>>
    /\ err = parsed[1].err

\* C6: the package part of an emitted argument is "main" when the parsed
\* package path equals -p and the parsed path otherwise; symbol and value are
\* emitted as parsed.
PackageRewrite ==
    (parsed # <<>> /\ ~parsed[1].err.set /\ pc \in {"xstamps", "xdefs"}) =>
        \E ij \in FirstSplits(parsed[1].xdef) :
            LET q == Parts(parsed[1].xdef, ij)
                pkg == IF q.pkg = packagePath THEN <<"main">> ELSE q.pkg
                n == Len(goargs)
            IN  IF pc = "xdefs"
                THEN /\ goargs[n - 1] = <<"-X">>
                     /\ goargs[n] = Joined(pkg, q.name, q.value)
                ELSE q.value \in DOMAIN stampMap =>
                     /\ goargs[n - 1] = <<"-X">>
                     /\ goargs[n] = Joined(pkg, q.name, stampMap[q.value])

\* an -X request for the package named by -p was emitted
PackageRewriteWitness ==
    /\ pc = "xdefs"
    /\ parsed # <<>>
    /\ parsed[1].pkg = <<"main">>
    /\ packagePath # <<>>
    /\ goargs[Len(goargs)] = <<"main", ".", "a", "=", "a">>

\* C7: after loading, the stamp table is F1 overwritten key by key with F2,
\* ..., Fn: every key has the value of the last line, in the last file, that
\* defines it.
LaterStampWins ==
    StampsLoaded =>
        /\ stampMap = MergedUpTo(Len(stamps))
        /\ stampMap = LastWins(StampLines)

\* two files define the same key with different values
LaterStampWinsWitness ==
    /\ StampsLoaded
    /\ Len(stamps) = 2
    /\ \E d, e \in StampLines :
          /\ d[1] = 1
          /\ e[1] = 2
          /\ LineKey(d[3]) = LineKey(e[3])
          /\ LineValue(d[3]) # LineValue(e[3])
          /\ stampMap[LineKey(e[3])] = LineValue(e[3])

\* C8 as stated: only the non-empty lines of the stamp files add entries, so
\* the loaded table is the one defined by the non-empty lines.
OnlyNonEmptyLinesStored ==
    StampsLoaded => stampMap = LastWins({e \in StampLines : e[3] # <<>>})

\* C9: in the tool's argument list the argument of every -Xstamp request whose
\* key is present comes before those of the -X requests, and in each group the
\* arguments stand in declaration order, one per request.
SubstitutionOrder ==
    \A k \in 1..Len(invocations) :
        LET argv == invocations[k]
            present(n) ==
                {h \in 1..n : Resolved(xstamps[h]).value \in DOMAIN stampMap}
            stampPos(i) == PrefixLen + 2 * Cardinality(present(i))
            xdefPos(j) == PrefixLen + 2 * Cardinality(present(Len(xstamps))) + 2 * j
        IN  /\ \A i \in present(Len(xstamps)) :
                  LET q == Resolved(xstamps[i])
                  IN  /\ argv[stampPos(i) - 1] = <<"-X">>
                      /\ argv[stampPos(i)] = Joined(q.pkg, q.name, stampMap[q.value])
            /\ \A j \in 1..Len(xdefs) :
                  LET q == Resolved(xdefs[j])
                  IN  /\ argv[xdefPos(j) - 1] = <<"-X">>
                      /\ argv[xdefPos(j)] = Joined(q.pkg, q.name, q.value)
            /\ argv[xdefPos(Len(xdefs)) + 1] \in {<<"-buildmode">>, <<"-o">>}

\* the tool was run with two different -Xstamp requests and the same -X
\* request twice
SubstitutionOrderWitness ==
    /\ Len(invocations) = 1
    /\ Len(xstamps) = 2
    /\ xstamps[1] # xstamps[2]
    /\ \A i \in 1..2 : Resolved(xstamps[i]).value \in DOMAIN stampMap
    /\ Len(xdefs) = 2
    /\ xdefs[1] = xdefs[2]

\* C10: stripArMetadata runs on the output file exactly once, after the
\* external tool succeeded, when the build mode is c-archive, and never
\* otherwise.
StripOnlyCArchive ==
    /\ Len(stripped) <= 1
    /\ stripped # <<>> =>
          /\ buildmode = <<"c-archive">>
          /\ toolResult = "ok"
          /\ stripped[1] = outFile
    /\ pc = "done" =>
          (Len(stripped) = 1 <=> (buildmode = <<"c-archive">> /\ toolResult = "ok"))

\* link succeeded in c-archive mode after one strip
StripOnlyCArchiveWitness ==
    /\ pc = "done"
    /\ ~err.set
    /\ Len(stripped) = 1
    /\ buildmode = <<"c-archive">>


\* C11: when a declared stamp file cannot be read, link returns an error whose
\* message names that file; that read is the last thing link does: no later
\* stamp file is read, no descriptor is created, the external tool is not run.
UnreadableStampFatal ==
    \A k \in 1..Len(calls) :
        (calls[k].op = "ReadFile" /\ ~calls[k].ok) =>
            /\ pc = "done"
            /\ err.set
            /\ Contains(err.msg, calls[k].arg)
            /\ k = Len(calls)
            /\ \A h \in 1..Len(calls) : calls[h].op # "buildImportcfgFileForLink"
            /\ importcfgName = <<>>
            /\ fs = {}
            /\ invocations = <<>>

\* the first of two stamp files could not be read
UnreadableStampFatalWitness ==
    /\ pc = "done"
    /\ Len(stamps) = 2
    /\ calls # <<>>
    /\ calls[Len(calls)] = Call("ReadFile", stamps[1], FALSE)

\* The output path link works with, given the -o value and the platform
ExpectedOut == IF GOOS = "darwin" THEN oFlag ELSE abs(oFlag)

\* C12: the main path handed to the external tool is the absolute form of the
\* -main value on every platform; the output path handed to the external tool
\* and to the strip step, and the one whose directory the descriptor builder
\* gets, is the absolute form of the -o value, except on darwin, where it is
\* the -o value unchanged.
PathsNormalized ==
    /\ \A k \in 1..Len(invocations) :
          LET argv == invocations[k]
              o == Len(argv) - Len(toolArgs) - 1
          IN  /\ argv[Len(argv)] = abs(mainFlag)
              /\ argv[o - 1] = <<"-o">>
              /\ argv[o] = ExpectedOut
    /\ \A k \in 1..Len(calls) :
          calls[k].op = "buildImportcfgFileForLink" => calls[k].arg = Dir(ExpectedOut)
    /\ \A k \in 1..Len(stripped) : stripped[k] = ExpectedOut

\* on darwin, relative -o and -main values reached the tool and the strip step
PathsNormalizedWitness ==
    /\ GOOS = "darwin"
    /\ oFlag = <<"o">>
    /\ mainFlag = <<"m">>
    /\ Len(invocations) = 1
    /\ invocations[1][Len(invocations[1])] = <<"/", "w", "/", "m">>
    /\ stripped = <<<<"o">>>>

\* A collaborator of link failed, or a request was rejected by parseXdef
SomeFailure ==
    \/ \E k \in 1..Len(calls) : ~calls[k].ok
    \/ \E k \in 1..Len(parsed) : parsed[k].err.set

\* The external tool succeeded and so did the strip, where one is due
LinkedAndStripped ==
    /\ toolResult = "ok"
    /\ buildmode = <<"c-archive">> =>
          /\ calls # <<>>
          /\ calls[Len(calls)].op = "stripArMetadata"
          /\ calls[Len(calls)].ok

StripPrefix == "error stripping archive metadata: "

\* A strip failure is reported under its own prefix, a tool failure is not
StripReportedApart ==
    \A k \in 1..Len(calls) :
        /\ (calls[k].op = "stripArMetadata" /\ ~calls[k].ok) => err.msg[1] = StripPrefix
        /\ (calls[k].op = "runCommand" /\ ~calls[k].ok) => err.msg[1] # StripPrefix

\* C13 as stated: link returns nil exactly when the external tool and, for
\* c-archive, the strip succeeded; every failure, a flag error included, makes
\* link return an error; a strip failure has its own message prefix.
EveryFailureReturned ==
    /\ Terminated => (pc = "done" /\ (~err.set <=> LinkedAndStripped))
    /\ SomeFailure => (pc = "done" /\ err.set)
    /\ StripReportedApart

\* C13 (amended): as stated, except that on a flag error link does not
\* return: flags.Parse of the flag.ExitOnError flag set ends the process.
FailureReturnedOrExited ==
    /\ pc = "done" => (~err.set <=> LinkedAndStripped)
    /\ pc = "exited" <=>
          (calls # <<>> /\ calls[Len(calls)] = Call("flags.Parse", <<>>, FALSE))
    /\ pc = "exited" => (~err.set /\ invocations = <<>> /\ importcfgName = <<>>)
    /\ (SomeFailure /\ pc # "exited") => (pc = "done" /\ err.set)
    /\ StripReportedApart

\* link returned the error of a failed strip after a successful tool run
FailureReturnedOrExitedWitness ==
    /\ pc = "done"
    /\ toolResult = "ok"
    /\ err.set
    /\ err.msg[1] = StripPrefix

\* The positions in calls of the calls of op
CallsOf(op) == {k \in 1..Len(calls) : calls[k].op = op}

\* Some -Xstamp or -X request is one parseXdef rejects
SomeRejected ==
    \/ \E i \in 1..Len(xstamps) : FirstSplits(xstamps[i]) = {}
    \/ \E i \in 1..Len(xdefs) : FirstSplits(xdefs[i]) = {}

\* C14: the external tool is run at most once in a run of link, and only
\* after every stamp file was read, the descriptor was built and every
\* -Xstamp and -X request was parsed; any request the parser rejects, whatever
\* its stamp key and wherever it is declared, keeps the tool from running and
\* makes link fail.
ToolRunOnceAfterParsing ==
    /\ Len(invocations) <= 1
    /\ Cardinality(CallsOf("runCommand")) = Len(invocations)
    /\ \A r \in CallsOf("runCommand") :
          /\ StampsLoaded
          /\ \A i \in 1..Len(stamps) :
                \E k \in 1..(r - 1) : calls[k] = Call("ReadFile", stamps[i], TRUE)
          /\ \E k \in 1..(r - 1) :
                calls[k].op = "buildImportcfgFileForLink" /\ calls[k].ok
          /\ ~SomeRejected
          /\ (r < Len(calls) => calls[r].ok)
    /\ SomeRejected =>
          /\ invocations = <<>>
          /\ pc = "done" => err.set

\* link ended on a rejected -X request declared after a valid one and after a
\* valid -Xstamp request, without running the tool
ToolRunOnceAfterParsingWitness ==
    /\ pc = "done"
    /\ xstamps # <<>>
    /\ Len(xdefs) = 2
    /\ FirstSplits(xdefs[1]) # {}
    /\ parsed # <<>>
    /\ parsed[1].xdef = xdefs[2]
    /\ parsed[1].err.set
    /\ err = parsed[1].err
    /\ invocations = <<>>

============================================================================
